---- MODULE Spec2Model ----
(***************************************************************************)
(* openrr-planner, ik.rs: the randomized-restart inverse-kinematics        *)
(* solver RandomInitializeIkSolver::solve_with_constraints and the         *)
(* parallel workspace sampler get_reachable_region; arci-ros2,             *)
(* ros2_control.rs: Ros2ControlClient::send_joint_trajectory and           *)
(* Ros2ControlClient::current_joint_positions.                             *)
(*                                                                         *)
(* Angles are integers in quarter turns: HalfTurn stands for pi, FullTurn  *)
(* for 2*pi.  A joint configuration is a sequence of angles, one per       *)
(* joint, in the order of the joint limits.                                *)
(***************************************************************************)
EXTENDS Integers, Sequences, FiniteSets, TLC

\* ------------------------------------------------------------------ bounds
\* largest num_max_try a solver is constructed with
MaxTry == 2
\* pre-call joint angles range over -MaxAngle..MaxAngle
MaxAngle == 2
\* distinct residual diagnostics an engine failure can carry
MaxDiag == 2

\* ------------------------------------------------------------ angle units
HalfTurn == 2
FullTurn == 2 * HalfTurn

Abs(x) == IF x < 0 THEN -x ELSE x

\* ------------------------------------------------------------ joint limits
\* JointLimit {min, max, continuous}
BoundedLimit == [min |-> 0, max |-> 1, continuous |-> FALSE]
ContinuousLimit == [min |-> -HalfTurn, max |-> HalfTurn, continuous |-> TRUE]
\* the limit vectors of the arms under study: one bounded joint, one
\* continuous joint, a bounded joint followed by a continuous one
LimitVectors == { <<BoundedLimit>>, <<ContinuousLimit>>,
                  <<BoundedLimit, ContinuousLimit>> }

AngleVals == (-MaxAngle)..MaxAngle
\* every configuration an arm with these limits can hold before the call
\* (set_joint_positions_unchecked and a freshly loaded chain are not bound
\* by the limits)
Configs(lim) == [1..Len(lim) -> AngleVals]
\* the configurations the single-shot engine can leave the arm at
EngineAngles == {-1, 1}
EngineConfigs(lim) == [1..Len(lim) -> EngineAngles]

\* -------------------------------------------------- the funcs collaborators
\* generate_random_joint_positions_from_limits: every configuration the
\* sampler can draw: bounded joints in [min, max], continuous joints in the
\* full-turn range [-pi, pi)
SampleRange(l) == IF l.continuous THEN (-HalfTurn)..(HalfTurn - 1) ELSE (l.min)..(l.max)
generate_random_joint_positions_from_limits(lim) ==
    { c \in [1..Len(lim) -> (-HalfTurn)..HalfTurn] :
        \A i \in 1..Len(lim) : c[i] \in SampleRange(lim[i]) }

\* the angle congruent to cand modulo a full turn that is nearest to ref
NearestAngle(ref, cand) == ref - HalfTurn + ((cand - ref + HalfTurn) % FullTurn)
\* modify_to_nearest_angle(reference, candidate, limits): continuous joints
\* wrap toward the reference, the others keep the candidate
modify_to_nearest_angle(ref, cand, lim) ==
    [i \in 1..Len(lim) |->
        IF lim[i].continuous THEN NearestAngle(ref[i], cand[i]) ELSE cand[i]]

\* ---------------------------------------------------- the Arm collaborator
\* a joint accepts a position when it is continuous or within [min, max]
JointValid(l, v) == l.continuous \/ (l.min <= v /\ v <= l.max)
\* the first joint whose position is rejected, 0 when all are accepted
FirstInvalid(cfg, lim) ==
    IF \A i \in 1..Len(lim) : JointValid(lim[i], cfg[i]) THEN 0
    ELSE CHOOSE i \in 1..Len(lim) :
            /\ ~JointValid(lim[i], cfg[i])
            /\ \A j \in 1..(i - 1) : JointValid(lim[j], cfg[j])
\* set_joint_positions (validated): a length mismatch changes nothing; the
\* joints are set in order and the first rejected position stops the call,
\* the joints before it already set
set_joint_positions(cur, cfg, lim) ==
    IF Len(cfg) # Len(lim) THEN [ok |-> FALSE, arm |-> cur]
    ELSE LET bad == FirstInvalid(cfg, lim) IN
         IF bad = 0 THEN [ok |-> TRUE, arm |-> cfg]
         ELSE [ok |-> FALSE,
               arm |-> [i \in 1..Len(lim) |-> IF i < bad THEN cfg[i] ELSE cur[i]]]
\* set_joint_positions_with_constraints: the validated setter, the
\* constraints passed through
set_joint_positions_with_constraints(cur, cfg, lim) == set_joint_positions(cur, cfg, lim)

\* ---------------------------------------------------------- engine outcomes
OkResult == [kind |-> "Ok"]
NotConverged(n) == [kind |-> "NotConverged", num_tried |-> n]
\* an error of the engine other than non-convergence (size mismatch, ...)
EngineStructural == [kind |-> "Structural", at |-> "engine"]
SetError(where) == [kind |-> "Structural", at |-> where]
EngineFailures == { NotConverged(d) : d \in 1..MaxDiag } \cup { EngineStructural }

VARIABLES
    limits,          \* the arm's joint limits
    arm,             \* the arm's joint configuration
    num_max_try,     \* self.num_max_try
    pc,              \* "start", "loop", "randomize", "done"
    try_idx,         \* the loop index
    result,          \* the local variable result
    initial_angles,  \* the snapshot taken before the first attempt
    returned,        \* the value the call returned
    pre_call,        \* the arm's configuration when the call was made
    outcomes,        \* the engine's outcomes so far, in order
    sample,          \* the last configuration drawn by the sampler
    new_angles,      \* the last restart seed
    randomizations,  \* how many restart seeds were drawn
    converged        \* the configuration the engine converged to

\* get_reachable_region
VARIABLES
    ik_solver,         \* the solver passed in (a deterministic engine)
    initial_pose,      \* the reference pose
    min_point,         \* <<x, y, z>>
    max_point,         \* <<x, y, z>>
    unit_check_length, \* the grid step
    num_workers,       \* the size of the worker pool
    z_points,          \* the z coordinates, one per slice
    slices,            \* per z-slice: its position in the closure
    arms,              \* the arm instances made by clone, by instance
    solved_poses,      \* the shared result list
    regions,           \* the list the call returned
    z,                 \* the z loop's variable
    evals,             \* the solver invocations made: target, arm, outcome
    repeated           \* whether some target was handed to the solver twice

\* Ros2ControlClient
VARIABLES
    joint_names,   \* self.joint_names
    joints,        \* the controller state received by current_joint_positions
    positions,     \* the positions collected so far
    cpc,           \* current_joint_positions: where the call is
    task,          \* per call of send_joint_trajectory: where the inner task is
    outer,         \* per call: where the future given to spawn_blocking is
    is_available,  \* per call: what the availability future resolved to
    goal_response, \* per call: what the server answered to the goal request
    goal_result,   \* per call: the action result of the goal
    goal_sent,     \* per call: whether send_goal_request was made
    is_done,       \* per call: the AtomicBool
    channel,       \* per call: the oneshot channel
    wait           \* per call: the WaitFuture returned

svars == << limits, arm, num_max_try, pc, try_idx, result, initial_angles,
            returned, pre_call, outcomes, sample, new_angles, randomizations,
            converged >>
rvars == << ik_solver, initial_pose, min_point, max_point, unit_check_length,
            num_workers, z_points, slices, arms, solved_poses, regions, z,
            evals, repeated >>
cvars == << joint_names, joints, positions, cpc, task, outer, is_available,
            goal_response, goal_result, goal_sent, is_done, channel, wait >>
vars == << svars, rvars, cvars >>

NoValue == << >>
NotReturned == [kind |-> "None"]

\* calls of send_joint_trajectory followed at once
MaxCalls == 2
Calls == 1..MaxCalls

\* no call of send_joint_trajectory has been made
TrajectoryIdle ==
    /\ task = [c \in Calls |-> "none"]
    /\ outer = [c \in Calls |-> "none"]
    /\ is_available = [c \in Calls |-> "pending"]
    /\ goal_response = [c \in Calls |-> "none"]
    /\ goal_result = [c \in Calls |-> "none"]
    /\ goal_sent = [c \in Calls |-> FALSE]
    /\ is_done = [c \in Calls |-> FALSE]
    /\ channel = [c \in Calls |-> "none"]
    /\ wait = [c \in Calls |-> "none"]

\* no Ros2ControlClient is in use
ControlIdle ==
    /\ joint_names = << >>
    /\ joints = NoValue
    /\ positions = << >>
    /\ cpc = "none"
    /\ TrajectoryIdle

Init ==
    /\ limits \in LimitVectors
    /\ arm \in Configs(limits)
    /\ num_max_try \in 0..MaxTry
    /\ pc = "start"
    /\ try_idx = 0
    /\ result = NotReturned
    /\ initial_angles = NoValue
    /\ returned = NotReturned
    /\ pre_call = arm
    /\ outcomes = << >>
    /\ sample = NoValue
    /\ new_angles = NoValue
    /\ randomizations = 0
    /\ converged = NoValue
    /\ ik_solver = NoValue
    /\ initial_pose = NoValue
    /\ min_point = NoValue
    /\ max_point = NoValue
    /\ unit_check_length = 0
    /\ num_workers = 0
    /\ z_points = << >>
    /\ slices = << >>
    /\ arms = << >>
    /\ solved_poses = << >>
    /\ regions = NoValue
    /\ z = 0
    /\ evals = {}
    /\ repeated = FALSE
    /\ ControlIdle

\* lines 66-72: the default result and the snapshot
Begin ==
    /\ pc = "start"
    /\ result' = NotConverged(0)
    /\ initial_angles' = arm
    /\ pc' = "loop"
    /\ UNCHANGED << rvars, cvars >>
    /\ UNCHANGED << limits, arm, num_max_try, try_idx, returned, pre_call,
                    outcomes, sample, new_angles, randomizations, converged >>

\* the loop bound taken inclusive
LoopCondInclusive == try_idx <= num_max_try
\* line 74: for try_idx in 0..self.num_max_try
LoopCond == try_idx < num_max_try

\* the success recorded, the return forgotten: the loop goes on as after a failure
AttemptOkNoReturn ==
    /\ pc = "loop"
    /\ LoopCond
    /\ \E solved \in EngineConfigs(limits) :
        /\ arm' = solved
        /\ converged' = solved
        /\ result' = OkResult
        /\ outcomes' = Append(outcomes, OkResult)
    /\ pc' = "randomize"
    /\ UNCHANGED << rvars, cvars >>
    /\ UNCHANGED << limits, num_max_try, try_idx, initial_angles, returned,
                    pre_call, sample, new_angles, randomizations >>

\* lines 81-90: the engine converges; the result is returned at once
AttemptOk ==
    /\ pc = "loop"
    /\ LoopCond
    /\ \E solved \in EngineConfigs(limits) :
        /\ arm' = solved
        /\ converged' = solved
        /\ result' = OkResult
        /\ outcomes' = Append(outcomes, OkResult)
        /\ returned' = OkResult
        /\ pc' = "done"
    /\ UNCHANGED << rvars, cvars >>
    /\ UNCHANGED << limits, num_max_try, try_idx, initial_angles, pre_call,
                    sample, new_angles, randomizations >>

\* lines 81-84: the engine returns an error of any kind, leaving the arm
\* wherever its iteration stopped
AttemptFail ==
    /\ pc = "loop"
    /\ LoopCond
    /\ \E left \in EngineConfigs(limits), e \in EngineFailures :
        /\ arm' = left
        /\ result' = e
        /\ outcomes' = Append(outcomes, e)
    /\ pc' = "randomize"
    /\ UNCHANGED << rvars, cvars >>
    /\ UNCHANGED << limits, num_max_try, try_idx, initial_angles, returned,
                    pre_call, sample, new_angles, randomizations, converged >>

\* the seed repaired against the arm's current (failed-trial) configuration
RestartSeedFromArm(s) == modify_to_nearest_angle(arm, s, limits)
\* the arguments of the repair exchanged: the snapshot wrapped toward the sample
RestartSeedSwapped(s) == modify_to_nearest_angle(s, initial_angles, limits)
\* lines 91-92: the restart seed for a drawn sample
RestartSeed(s) == modify_to_nearest_angle(initial_angles, s, limits)

\* lines 91-94: draw, repair, set; an error of the setter returns (the ?)
Randomize ==
    /\ pc = "randomize"
    /\ \E s \in generate_random_joint_positions_from_limits(limits) :
        LET seed == RestartSeed(s)
            set == set_joint_positions_with_constraints(arm, seed, limits)
        IN  /\ sample' = s
            /\ new_angles' = seed
            /\ arm' = set.arm
            /\ IF set.ok
               THEN /\ try_idx' = try_idx + 1
                    /\ pc' = "loop"
                    /\ returned' = returned
               ELSE /\ try_idx' = try_idx
                    /\ pc' = "done"
                    /\ returned' = SetError("seed")
    /\ randomizations' = randomizations + 1
    /\ UNCHANGED << rvars, cvars >>
    /\ UNCHANGED << limits, num_max_try, result, initial_angles, pre_call,
                    outcomes, converged >>

\* lines 95-102: the loop is over; restore the snapshot and return result
Exhaust ==
    /\ pc = "loop"
    /\ ~LoopCond
    /\ LET set == set_joint_positions(arm, initial_angles, limits)
       IN  /\ arm' = set.arm
           /\ returned' = IF set.ok THEN result ELSE SetError("restore")
    /\ pc' = "done"
    /\ UNCHANGED << rvars, cvars >>
    /\ UNCHANGED << limits, num_max_try, try_idx, result, initial_angles,
                    pre_call, outcomes, sample, new_angles, randomizations,
                    converged >>

Next == Begin \/ AttemptOk \/ AttemptFail \/ Randomize \/ Exhaust

Spec == Init /\ [][Next]_vars

\* the call is synchronous and single-threaded: every step that can be
\* taken is taken
FairSpec == Spec /\ WF_vars(Next)

\* ------------------------------------------------- get_reachable_region
\* the largest z extent of the boxes stepped without rounding, in grid units
MaxZ == 2
\* the largest worker pool
MaxWorkers == 2
\* the significand width of the scalar type T (24 for f32, 53 for f64)
MantissaBits == 3

\* ---- the scalar type T: binary floating point, round to nearest, ties to
\* even.  A value is an integer number of units; it is representable when
\* its magnitude has at most MantissaBits significant bits.
RECURSIVE Pow2(_)
Pow2(n) == IF n = 0 THEN 1 ELSE 2 * Pow2(n - 1)
\* the spacing of the representable values around the magnitude m
RECURSIVE Quantum(_, _)
Quantum(m, q) == IF m < q * Pow2(MantissaBits) THEN q ELSE Quantum(m, 2 * q)
RoundMagnitude(m) ==
    LET q == Quantum(m, 1)
        lo == (m \div q) * q
        r == m - lo
    IN  IF 2 * r < q THEN lo
        ELSE IF 2 * r > q THEN lo + q
        ELSE IF (lo \div q) % 2 = 0 THEN lo ELSE lo + q
Round(v) == IF v < 0 THEN -RoundMagnitude(-v) ELSE RoundMagnitude(v)
Representable(v) == Round(v) = v
\* lines 128, 148, 150: a += b in T
FAdd(a, b) == Round(a + b)

\* a pose: translation <<x, y, z>> and a rotation
Pose(t, r) == [translation |-> t, rotation |-> r]
ReferencePoses == { Pose(<<7, 7, 7>>, r) : r \in 0..1 }
\* the boxes under study: min_point at the origin or off it, max_point up to
\* two steps away on x, one on y, MaxZ on z
MinPoints == { <<0, 0, 0>>, <<1, 0, -1>> }
BoxExtents == { <<ex, ey, ez>> : ex \in 0..2, ey \in 0..1, ez \in 0..MaxZ }
Box(lo, hi, step) == [min |-> lo, max |-> hi, step |-> step]
\* boxes of small coordinates, whose every sum is representable
SmallBoxes ==
    { Box(lo, [k \in 1..3 |-> lo[k] + e[k]], step) :
        lo \in MinPoints, e \in BoxExtents, step \in 1..2 }
\* boxes of larger coordinates, a whole number of steps wide on every axis,
\* whose sums are rounded: two steps on z; two steps on x; two steps on z
LargeBoxes ==
    { Box(<<0, 0, 4>>, <<5, 5, 14>>, 5),
      Box(<<8, 0, 0>>, <<10, 1, 1>>, 1),
      Box(<<0, 0, 8>>, <<1, 1, 10>>, 1) }
RegionBoxes ==
    { b \in SmallBoxes \cup LargeBoxes :
        /\ Representable(b.step)
        /\ \A k \in 1..3 : Representable(b.min[k]) /\ Representable(b.max[k]) }
\* the caller's arm configurations
RegionArms == { <<0>>, <<1>> }
\* the deterministic solvers under study, told apart by a number
Solvers == 0..1
\* the z loop and the result list of a call that does not end are followed
\* this far
MaxSlices == MaxZ + 2
MaxPoses == 2 * MaxZ + 2

\* the solver's outcome is a function of the arm it starts from and of the
\* target: whether it converges, and the configuration it leaves the arm at
SolverOk(s, a, pose) ==
    (a[1] + pose.translation[1] + 2 * pose.translation[2]
        + pose.translation[3] + s) % 3 # 0
SolverLeaves(s, a, pose) == << 1 - a[1] >>

\* lines 124-129: the coordinates from lo, step by step, below hi (cut at
\* a step that does not move the coordinate)
RECURSIVE Steps(_, _, _)
Steps(lo, hi, step) ==
    IF lo < hi
    THEN << lo >> \o (IF FAdd(lo, step) = lo THEN << >> ELSE Steps(FAdd(lo, step), hi, step))
    ELSE << >>

\* the closure works on the caller's arm itself
ArmOfCaller(i) == 0
\* one clone made before the parallel loop and used by every slice
ArmShared(i) == 1
\* line 132: the arm instance slice i works on: its own clone (instance 0
\* is the caller's arm)
ArmOf(i) == i

Running(i) == slices[i].phase \in {"yloop", "xloop", "solve", "push"}
Idle(w) == \A i \in 1..Len(slices) : Running(i) => slices[i].worker # w

RegionInit ==
    /\ arm = NoValue
    /\ pre_call \in RegionArms
    /\ arms = [i \in {0} |-> pre_call]
    /\ limits = << ContinuousLimit >>
    /\ num_max_try = 0
    /\ pc = "start"
    /\ try_idx = 0
    /\ result = NotReturned
    /\ initial_angles = NoValue
    /\ returned = NotReturned
    /\ outcomes = << >>
    /\ sample = NoValue
    /\ new_angles = NoValue
    /\ randomizations = 0
    /\ converged = NoValue
    /\ ik_solver \in Solvers
    /\ initial_pose \in ReferencePoses
    /\ \E b \in RegionBoxes :
        /\ min_point = b.min
        /\ max_point = b.max
        /\ unit_check_length = b.step
    /\ num_workers \in 1..MaxWorkers
    /\ z = 0
    /\ z_points = << >>
    /\ slices = << >>
    /\ solved_poses = << >>
    /\ regions = NoValue
    /\ evals = {}
    /\ repeated = FALSE
    /\ ControlIdle

RegionFrame ==
    UNCHANGED << limits, arm, num_max_try, try_idx, result, returned, pre_call,
                 outcomes, sample, new_angles, randomizations, converged,
                 ik_solver, initial_pose, min_point, max_point,
                 unit_check_length, num_workers, cvars >>

\* lines 120-125: the snapshot, the empty result list, z at min_point[2]
BuildZPoints ==
    /\ pc = "start"
    /\ initial_angles' = arms[0]
    /\ solved_poses' = << >>
    /\ z_points' = << >>
    /\ z' = min_point[3]
    /\ pc' = "zloop"
    /\ UNCHANGED << slices, arms, regions, evals, repeated >>
    /\ RegionFrame

\* lines 126-131: the z loop: push z and step it, or hand the z-slices to
\* the pool
ZLoop ==
    /\ pc = "zloop"
    /\ IF z < max_point[3]
       THEN /\ Len(z_points) < MaxSlices
            /\ z_points' = Append(z_points, z)
            /\ z' = FAdd(z, unit_check_length)
            /\ UNCHANGED << pc, slices, arms >>
       ELSE /\ pc' = "par"
            /\ slices' = [i \in 1..Len(z_points) |->
                    [phase |-> "pending", worker |-> 0, x |-> 0, y |-> 0,
                     target_pose |-> initial_pose]]
            /\ arms' = [i \in 0..Len(z_points) |-> IF i = 0 THEN arms[0] ELSE NoValue]
            /\ UNCHANGED << z, z_points >>
    /\ UNCHANGED << initial_angles, solved_poses, regions, evals, repeated >>
    /\ RegionFrame

\* lines 131-135: a free worker takes a z-slice: clone the arm, set z, y
StartSlice(i, w) ==
    /\ pc = "par"
    /\ slices[i].phase = "pending"
    /\ Idle(w)
    /\ arms' = [arms EXCEPT ![ArmOf(i)] = arms[0]]
    /\ slices' = [slices EXCEPT ![i] =
            [phase |-> "yloop", worker |-> w, x |-> 0, y |-> min_point[2],
             target_pose |-> Pose([initial_pose.translation EXCEPT ![3] = z_points[i]],
                                  initial_pose.rotation)]]
    /\ UNCHANGED << pc, initial_angles, z, z_points, solved_poses, regions,
                    evals, repeated >>
    /\ RegionFrame

\* lines 136-138 and 150-152: the y loop's test; set y and start x, or end
\* the slice
YLoop(i) ==
    /\ pc = "par"
    /\ slices[i].phase = "yloop"
    /\ LET sl == slices[i] IN
       IF sl.y < max_point[2]
       THEN slices' = [slices EXCEPT ![i] =
                [sl EXCEPT !.phase = "xloop", !.x = min_point[1],
                           !.target_pose.translation[2] = sl.y]]
       ELSE slices' = [slices EXCEPT ![i] = [sl EXCEPT !.phase = "done"]]
    /\ UNCHANGED << pc, initial_angles, z, z_points, arms, solved_poses,
                    regions, evals, repeated >>
    /\ RegionFrame

\* the x loop without the reset of line 141
XLoopNoReset(i) ==
    /\ pc = "par"
    /\ slices[i].phase = "xloop"
    /\ LET sl == slices[i] IN
       IF sl.x < max_point[1]
       THEN slices' = [slices EXCEPT ![i] =
                [sl EXCEPT !.phase = "solve", !.target_pose.translation[1] = sl.x]]
       ELSE slices' = [slices EXCEPT ![i] =
                [sl EXCEPT !.phase = "yloop", !.y = FAdd(sl.y, unit_check_length)]]
    /\ UNCHANGED << pc, initial_angles, z, z_points, arms, solved_poses,
                    regions, evals, repeated >>
    /\ RegionFrame

\* the x loop with the bound max_point[0] included
XLoopInclusive(i) ==
    /\ pc = "par"
    /\ slices[i].phase = "xloop"
    /\ LET sl == slices[i] IN
       IF sl.x <= max_point[1]
       THEN /\ slices' = [slices EXCEPT ![i] =
                    [sl EXCEPT !.phase = "solve", !.target_pose.translation[1] = sl.x]]
            /\ arms' = [arms EXCEPT ![ArmOf(i)] = initial_angles]
       ELSE /\ slices' = [slices EXCEPT ![i] =
                    [sl EXCEPT !.phase = "yloop", !.y = FAdd(sl.y, unit_check_length)]]
            /\ arms' = arms
    /\ UNCHANGED << pc, initial_angles, z, z_points, solved_poses, regions,
                    evals, repeated >>
    /\ RegionFrame

\* lines 139-141 and 150: the x loop's test; set x and reset the arm
\* (unchecked), or step y
XLoop(i) ==
    /\ pc = "par"
    /\ slices[i].phase = "xloop"
    /\ LET sl == slices[i] IN
       IF sl.x < max_point[1]
       THEN /\ slices' = [slices EXCEPT ![i] =
                    [sl EXCEPT !.phase = "solve", !.target_pose.translation[1] = sl.x]]
            /\ arms' = [arms EXCEPT ![ArmOf(i)] = initial_angles]
       ELSE /\ slices' = [slices EXCEPT ![i] =
                    [sl EXCEPT !.phase = "yloop", !.y = FAdd(sl.y, unit_check_length)]]
            /\ arms' = arms
    /\ UNCHANGED << pc, initial_angles, z, z_points, solved_poses, regions,
                    evals, repeated >>
    /\ RegionFrame

\* lines 142-145 and 148: the solver runs on the slice's arm; a failure
\* steps x
Solve(i) ==
    /\ pc = "par"
    /\ slices[i].phase = "solve"
    /\ LET sl == slices[i]
           a == arms[ArmOf(i)]
           ok == SolverOk(ik_solver, a, sl.target_pose)
       IN  /\ arms' = [arms EXCEPT ![ArmOf(i)] = SolverLeaves(ik_solver, a, sl.target_pose)]
           /\ evals' = evals \cup { [pose |-> sl.target_pose, arm |-> a, ok |-> ok] }
           /\ repeated' = (repeated \/ \E e \in evals : e.pose = sl.target_pose)
           /\ IF ok
              THEN slices' = [slices EXCEPT ![i] = [sl EXCEPT !.phase = "push"]]
              ELSE slices' = [slices EXCEPT ![i] =
                        [sl EXCEPT !.phase = "xloop", !.x = FAdd(sl.x, unit_check_length)]]
    /\ UNCHANGED << pc, initial_angles, z, z_points, solved_poses, regions >>
    /\ RegionFrame

\* the push replaces the list: a write that does not go through the lock
PushOverwrite(i) ==
    /\ pc = "par"
    /\ slices[i].phase = "push"
    /\ Len(solved_poses) < MaxPoses
    /\ solved_poses' = << slices[i].target_pose >>
    /\ slices' = [slices EXCEPT ![i] =
            [slices[i] EXCEPT !.phase = "xloop",
                              !.x = FAdd(slices[i].x, unit_check_length)]]
    /\ UNCHANGED << pc, initial_angles, z, z_points, arms, regions, evals, repeated >>
    /\ RegionFrame

\* lines 146-148: under the lock, push the pose; step x
Push(i) ==
    /\ pc = "par"
    /\ slices[i].phase = "push"
    /\ Len(solved_poses) < MaxPoses
    /\ solved_poses' = Append(solved_poses, slices[i].target_pose)
    /\ slices' = [slices EXCEPT ![i] =
            [slices[i] EXCEPT !.phase = "xloop",
                              !.x = FAdd(slices[i].x, unit_check_length)]]
    /\ UNCHANGED << pc, initial_angles, z, z_points, arms, regions, evals, repeated >>
    /\ RegionFrame

\* lines 152-153: every slice has ended; the list is returned
Join ==
    /\ pc = "par"
    /\ \A i \in 1..Len(slices) : slices[i].phase = "done"
    /\ regions' = solved_poses
    /\ pc' = "done"
    /\ UNCHANGED << initial_angles, z, z_points, slices, arms, solved_poses,
                    evals, repeated >>
    /\ RegionFrame

RegionNext ==
    \/ BuildZPoints
    \/ ZLoop
    \/ \E i \in 1..Len(slices), w \in 1..num_workers : StartSlice(i, w)
    \/ \E i \in 1..Len(slices) : YLoop(i)
    \/ \E i \in 1..Len(slices) : XLoop(i)
    \/ \E i \in 1..Len(slices) : Solve(i)
    \/ \E i \in 1..Len(slices) : Push(i)
    \/ Join

RegionSpec == RegionInit /\ [][RegionNext]_vars
\* the calling thread and the pool's workers keep running, and each solver
\* invocation returns
FairRegionSpec == RegionSpec /\ WF_vars(RegionNext)

\* ------------------------------------------------------ Ros2ControlClient
\* no planner call is in progress
PlannerIdle ==
    /\ limits = << >>
    /\ arm = NoValue
    /\ num_max_try = 0
    /\ pc = "none"
    /\ try_idx = 0
    /\ result = NotReturned
    /\ initial_angles = NoValue
    /\ returned = NotReturned
    /\ pre_call = NoValue
    /\ outcomes = << >>
    /\ sample = NoValue
    /\ new_angles = NoValue
    /\ randomizations = 0
    /\ converged = NoValue
    /\ ik_solver = NoValue
    /\ initial_pose = NoValue
    /\ min_point = NoValue
    /\ max_point = NoValue
    /\ unit_check_length = 0
    /\ num_workers = 0
    /\ z = 0
    /\ z_points = << >>
    /\ slices = << >>
    /\ arms = << >>
    /\ solved_poses = << >>
    /\ regions = NoValue
    /\ evals = {}
    /\ repeated = FALSE

\* ---- send_joint_trajectory
TrajectoryInit ==
    /\ PlannerIdle
    /\ ControlIdle

TrajectoryFrame ==
    UNCHANGED << svars, rvars, joint_names, joints, positions, cpc >>

\* lines 95-103 and 148-152: the call makes the availability future and the
\* channel, starts the thread with its two tasks and returns the WaitFuture
send_joint_trajectory(c) ==
    /\ task[c] = "none"
    /\ task' = [task EXCEPT ![c] = "goal"]
    /\ outer' = [outer EXCEPT ![c] = "wait"]
    /\ channel' = [channel EXCEPT ![c] = "empty"]
    /\ wait' = [wait EXCEPT ![c] = "pending"]
    /\ UNCHANGED << is_available, goal_response, goal_result, goal_sent, is_done >>
    /\ TrajectoryFrame

\* the node reports on the action server: the future made on line 97
\* resolves
ServerReported(c) ==
    /\ task[c] # "none"
    /\ is_available[c] = "pending"
    /\ \E r \in {"Ok", "Err"} : is_available' = [is_available EXCEPT ![c] = r]
    /\ UNCHANGED << task, outer, goal_response, goal_result, goal_sent, is_done,
                    channel, wait >>
    /\ TrajectoryFrame

\* lines 104-137: the goal is built; is_available.await.unwrap()
AwaitAvailable(c) ==
    /\ task[c] = "goal"
    /\ is_available[c] # "pending"
    /\ task' = [task EXCEPT ![c] =
            IF is_available[c] = "Ok" THEN "available" ELSE "panicked"]
    /\ UNCHANGED << outer, is_available, goal_response, goal_result, goal_sent,
                    is_done, channel, wait >>
    /\ TrajectoryFrame

\* line 138: action_client.send_goal_request(goal).unwrap()
SendGoal(c) ==
    /\ task[c] = "available"
    /\ \E ok \in BOOLEAN :
        /\ task' = [task EXCEPT ![c] = IF ok THEN "requested" ELSE "panicked"]
        /\ goal_sent' = [goal_sent EXCEPT ![c] = ok]
    /\ UNCHANGED << outer, is_available, goal_response, goal_result, is_done,
                    channel, wait >>
    /\ TrajectoryFrame

\* the server answers the goal request
GoalAnswered(c) ==
    /\ goal_sent[c]
    /\ goal_response[c] = "none"
    /\ \E r \in {"Accepted", "Err"} :
        goal_response' = [goal_response EXCEPT ![c] = r]
    /\ UNCHANGED << task, outer, is_available, goal_result, goal_sent, is_done,
                    channel, wait >>
    /\ TrajectoryFrame

\* lines 139-140: send_goal_request.await.unwrap(); the feedback is drained
AwaitGoal(c) ==
    /\ task[c] = "requested"
    /\ goal_response[c] # "none"
    /\ task' = [task EXCEPT ![c] =
            IF goal_response[c] = "Accepted" THEN "accepted" ELSE "panicked"]
    /\ UNCHANGED << outer, is_available, goal_response, goal_result, goal_sent,
                    is_done, channel, wait >>
    /\ TrajectoryFrame

\* the action result of the goal arrives
ResultArrived(c) ==
    /\ goal_response[c] = "Accepted"
    /\ goal_result[c] = "none"
    /\ \E r \in {"Ok", "Err"} : goal_result' = [goal_result EXCEPT ![c] = r]
    /\ UNCHANGED << task, outer, is_available, goal_response, goal_sent, is_done,
                    channel, wait >>
    /\ TrajectoryFrame

\* the flag stored before the result is awaited
StoreBeforeResult(c) ==
    /\ task[c] = "accepted"
    /\ task' = [task EXCEPT ![c] = "finished"]
    /\ is_done' = [is_done EXCEPT ![c] = TRUE]
    /\ UNCHANGED << outer, is_available, goal_response, goal_result, goal_sent,
                    channel, wait >>
    /\ TrajectoryFrame

\* line 141: result.await.unwrap()
AwaitResult(c) ==
    /\ task[c] = "accepted"
    /\ goal_result[c] # "none"
    /\ task' = [task EXCEPT ![c] =
            IF goal_result[c] = "Ok" THEN "result" ELSE "panicked"]
    /\ UNCHANGED << outer, is_available, goal_response, goal_result, goal_sent,
                    is_done, channel, wait >>
    /\ TrajectoryFrame

\* line 142: is_done.store(true, Ordering::Relaxed)
StoreDone(c) ==
    /\ task[c] = "result"
    /\ task' = [task EXCEPT ![c] = "finished"]
    /\ is_done' = [is_done EXCEPT ![c] = TRUE]
    /\ UNCHANGED << outer, is_available, goal_response, goal_result, goal_sent,
                    channel, wait >>
    /\ TrajectoryFrame

\* line 144: utils::wait(is_done_clone).await: returns once the flag is set
Wait(c) ==
    /\ outer[c] = "wait"
    /\ is_done[c]
    /\ outer' = [outer EXCEPT ![c] = "send"]
    /\ UNCHANGED << task, is_available, goal_response, goal_result, goal_sent,
                    is_done, channel, wait >>
    /\ TrajectoryFrame

\* line 146: let _ = sender.send(())
Send(c) ==
    /\ outer[c] = "send"
    /\ outer' = [outer EXCEPT ![c] = "finished"]
    /\ channel' = [channel EXCEPT ![c] = "value"]
    /\ UNCHANGED << task, is_available, goal_response, goal_result, goal_sent,
                    is_done, wait >>
    /\ TrajectoryFrame

\* line 150: receiver.await.map_err(..): the value sent, or an error when
\* the sender is gone
Resolve(c) ==
    /\ wait[c] = "pending"
    /\ channel[c] \in {"value", "closed"}
    /\ wait' = [wait EXCEPT ![c] = IF channel[c] = "value" THEN "Ok" ELSE "Err"]
    /\ UNCHANGED << task, outer, is_available, goal_response, goal_result,
                    goal_sent, is_done, channel >>
    /\ TrajectoryFrame

TrajectoryNext ==
    \E c \in Calls :
        \/ send_joint_trajectory(c)
        \/ ServerReported(c)
        \/ AwaitAvailable(c)
        \/ SendGoal(c)
        \/ GoalAnswered(c)
        \/ AwaitGoal(c)
        \/ ResultArrived(c)
        \/ AwaitResult(c)
        \/ StoreDone(c)
        \/ Wait(c)
        \/ Send(c)
        \/ Resolve(c)

TrajectorySpec == TrajectoryInit /\ [][TrajectoryNext]_vars

\* ---- current_joint_positions
\* the joint names in use
Names == {"j1", "j2", "j3"}
\* the longest list of joints in a client or in a state message
MaxJoints == 2
PositionValues == 0..1
NameSeqs == UNION { [1..n -> Names] : n \in 0..MaxJoints }
PositionSeqs == UNION { [1..n -> PositionValues] : n \in 0..MaxJoints }
\* JointTrajectoryControllerState: joint_names and actual.positions
StateMessages ==
    { [joint_names |-> n, actual |-> [positions |-> p]] :
        n \in NameSeqs, p \in PositionSeqs }

\* line 74: joints.joint_names.iter().position(|n| n == name): the first
\* index holding the name, counted from 1; 0 stands for None
position(names, name) ==
    IF \E j \in 1..Len(names) : names[j] = name
    THEN CHOOSE j \in 1..Len(names) :
            /\ names[j] = name
            /\ \A i \in 1..(j - 1) : names[i] # name
    ELSE 0

\* lines 42-47: the client keeps the joint names of the state it received
\* when it was made; a call of current_joint_positions begins
PositionsInit ==
    /\ PlannerIdle
    /\ TrajectoryIdle
    /\ joint_names \in NameSeqs
    /\ joints = NoValue
    /\ positions = << >>
    /\ cpc = "start"

PositionsFrame ==
    UNCHANGED << svars, rvars, joint_names, task, outer, is_available,
                 goal_response, goal_result, goal_sent, is_done, channel, wait >>

\* lines 52-61 and 69: a fresh controller state is received, or an unwrap
\* of get_joint_state panics
get_joint_state ==
    /\ cpc = "start"
    /\ \/ /\ joints' \in StateMessages
          /\ cpc' = "map"
       \/ /\ joints' = joints
          /\ cpc' = "panicked"
    /\ UNCHANGED positions
    /\ PositionsFrame

\* the next position taken from the entry at the name's own index in
\* self.joint_names
MapNameByOrder ==
    /\ cpc = "map"
    /\ Len(positions) < Len(joint_names)
    /\ LET k == Len(positions) + 1 IN
       IF k > Len(joints.actual.positions)
       THEN /\ cpc' = "panicked"
            /\ positions' = positions
       ELSE /\ cpc' = cpc
            /\ positions' = Append(positions, joints.actual.positions[k])
    /\ UNCHANGED joints
    /\ PositionsFrame

\* lines 72-75: the next name of self.joint_names: its index in the state's
\* joint_names (unwrap), the position at that index (bounds checked)
MapName ==
    /\ cpc = "map"
    /\ Len(positions) < Len(joint_names)
    /\ LET name == joint_names[Len(positions) + 1]
           idx == position(joints.joint_names, name)
       IN  IF idx = 0 \/ idx > Len(joints.actual.positions)
           THEN /\ cpc' = "panicked"
                /\ positions' = positions
           ELSE /\ cpc' = cpc
                /\ positions' = Append(positions, joints.actual.positions[idx])
    /\ UNCHANGED joints
    /\ PositionsFrame

\* lines 70 and 76: Ok(.. .collect())
Collect ==
    /\ cpc = "map"
    /\ Len(positions) = Len(joint_names)
    /\ cpc' = "returned"
    /\ UNCHANGED << joints, positions >>
    /\ PositionsFrame

PositionsNext == get_joint_state \/ MapName \/ Collect

PositionsSpec == PositionsInit /\ [][PositionsNext]_vars

\* ------------------------------------------------------------------ claims
AllFailed == \A k \in 1..Len(outcomes) : outcomes[k] # OkResult
\* every one of the num_max_try attempts was made and failed
Exhausted == Len(outcomes) = num_max_try /\ AllFailed

\* C1: once the call has returned, the arm is at the converged solution or
\* at its pre-call configuration
C1_ArmSolvedOrPreCall ==
    pc = "done" =>
        \/ returned = OkResult /\ arm = converged
        \/ arm = pre_call

\* C2: when every attempt failed, the returned call leaves the arm at the
\* snapshot initial_angles, whatever the pre-call configuration
C2_ExhaustedRestoresSnapshot ==
    (pc = "done" /\ Exhausted) => arm = initial_angles

\* C3: a success is the last engine invocation: the call returns Ok at once,
\* after exactly k invocations, the arm at the converged configuration
C3_FirstSuccessWins ==
    \A k \in 1..Len(outcomes) :
        outcomes[k] = OkResult =>
            /\ k = Len(outcomes)
            /\ k = try_idx + 1
            /\ \A j \in 1..(k - 1) : outcomes[j] # OkResult
            /\ pc = "done"
            /\ returned = OkResult
            /\ arm = converged
C3_WitnessSuccessBeforeBudgetSpent ==
    /\ pc = "done"
    /\ returned = OkResult
    /\ Len(outcomes) = 1
    /\ num_max_try > Len(outcomes)
    /\ arm = converged
    /\ arm # pre_call

\* C4: a restart seed is drawn only when another attempt remains: at most
\* num_max_try - 1 randomizations, none with num_max_try = 1
C4_RandomizeOnlyBeforeRetry ==
    num_max_try >= 1 => randomizations <= num_max_try - 1

\* C5: a structural error of the engine ends the call: it is the last engine
\* invocation, consumes no retry and is what the call returns
C5_StructuralAborts ==
    \A k \in 1..Len(outcomes) :
        outcomes[k] = EngineStructural =>
            /\ k = Len(outcomes)
            /\ try_idx = k - 1
            /\ pc = "done" => returned = EngineStructural

C7_ReturnsFinalFailure ==
    (pc = "done" /\ num_max_try >= 1 /\ Exhausted) =>
        returned = outcomes[num_max_try]

\* C8: every restart seed is the sample repaired against initial_angles:
\* congruent to the sample and within half a turn of the snapshot on a
\* continuous joint, the sample itself on any other joint
C8_SeedRepairedAgainstSnapshot ==
    randomizations > 0 =>
        \A i \in 1..Len(limits) :
            IF limits[i].continuous
            THEN /\ (new_angles[i] - sample[i]) % FullTurn = 0
                 /\ Abs(new_angles[i] - initial_angles[i]) <= HalfTurn
            ELSE new_angles[i] = sample[i]
C8_WitnessRepairedSeed ==
    /\ randomizations >= 2
    /\ pc = "loop"
    /\ arm = new_angles
    /\ \E i \in 1..Len(limits) :
        /\ limits[i].continuous
        /\ new_angles[i] # sample[i]
        /\ \E e \in EngineAngles : Abs(new_angles[i] - e) > HalfTurn

\* how a returned call ended
Ended ==
    \/ returned = OkResult /\ outcomes[Len(outcomes)] = OkResult
    \/ Exhausted /\ returned = result /\ returned.kind # "Ok"
    \/ returned.kind = "Structural" /\ returned.at \in {"seed", "restore"}

\* C9: every call returns, after at most num_max_try engine invocations,
\* converged, exhausted or aborted by a structural error of a setter; the
\* attempt index only grows and each attempt is made at a fresh index
C9_Terminates ==
    /\ <>(pc = "done")
    /\ [](Len(outcomes) <= num_max_try)
    /\ [](pc = "done" => Ended)
    /\ [][try_idx' >= try_idx]_vars
    /\ [][outcomes' # outcomes => Len(outcomes') = try_idx + 1]_vars
C9_WitnessExhausted ==
    /\ pc = "done"
    /\ Exhausted
    /\ num_max_try = MaxTry
    /\ returned.kind = "NotConverged"

\* the coordinates of one axis, as a set
Coords(k) == LET c == Steps(min_point[k], max_point[k], unit_check_length)
             IN  { c[n] : n \in 1..Len(c) }
\* the poses a deterministic solver reaches from initial_angles, by the
\* inputs of the call alone
ReachablePoses ==
    { Pose(p, initial_pose.rotation) :
        p \in { t \in Coords(1) \X Coords(2) \X Coords(3) :
            SolverOk(ik_solver, initial_angles, Pose(t, initial_pose.rotation)) } }
PoseSet(list) == { list[n] : n \in 1..Len(list) }

\* C10: the set of returned poses is fixed by the inputs: it is the same for
\* every pool size and every interleaving of the z-slices
C10_ResultSetScheduleIndependent ==
    pc = "done" => PoseSet(regions) = ReachablePoses
C10_WitnessOutOfOrder ==
    /\ pc = "done"
    /\ num_workers = 2
    /\ \E j, k \in 1..Len(regions) :
        /\ j < k
        /\ regions[j].translation[3] > regions[k].translation[3]
    /\ \E j, k \in 1..Len(regions) :
        /\ j < k
        /\ regions[j].translation[3] < regions[k].translation[3]

\* the targets the solver converged on, of the invocations made
SolvedTargets == { e.pose : e \in { f \in evals : f.ok } }

\* C11: the call returns only after every z-slice has ended, and the list it
\* returns holds every target the solver converged on and nothing else; a
\* target the solver did not converge on is only left out
C11_ReturnsAfterJoinWithEverySolvedPose ==
    pc = "done" =>
        /\ \A i \in 1..Len(slices) : slices[i].phase = "done"
        /\ PoseSet(regions) = SolvedTargets
        /\ regions = solved_poses
C11_WitnessTwoSlicesOneOmitted ==
    /\ pc = "done"
    /\ num_workers = 2
    /\ \E j, k \in 1..Len(regions) :
        regions[j].translation[3] # regions[k].translation[3]
    /\ \E e \in evals : ~e.ok

\* the targets handed to the solver
EvaluatedTargets == { e.pose : e \in evals }

\* C12: every returned pose is a target the solver converged on; its
\* translation is in the half-open box on each axis, its rotation is the
\* reference pose's, no target is returned twice, and the list is no longer
\* than the number of targets evaluated
C12_ReturnedPosesAreSolvedGridPoints ==
    pc = "done" =>
        /\ \A n \in 1..Len(regions) :
            /\ regions[n] \in SolvedTargets
            /\ \A k \in 1..3 :
                /\ min_point[k] <= regions[n].translation[k]
                /\ regions[n].translation[k] < max_point[k]
            /\ regions[n].rotation = initial_pose.rotation
        /\ \A j, k \in 1..Len(regions) : j # k => regions[j] # regions[k]
        /\ Len(regions) <= Cardinality(EvaluatedTargets)
C12_WitnessLastPointBeforeMax ==
    /\ pc = "done"
    /\ Len(regions) >= 2
    /\ \E n \in 1..Len(regions) :
        regions[n].translation[1] + unit_check_length = max_point[1]
    /\ \E e \in evals : ~e.ok

\* C13: every solver invocation starts from an arm at initial_angles, the
\* caller's configuration when the call was made, whatever the solver left
\* behind at the target before
C13_SolverStartsFromInitialAngles ==
    /\ pc \in {"par", "done"} => initial_angles = pre_call
    /\ \A e \in evals : e.arm = initial_angles
    /\ \A i \in 1..Len(slices) :
        slices[i].phase = "solve" => arms[ArmOf(i)] = initial_angles
C13_WitnessResetAfterSolverMovedArm ==
    \E i \in 1..Len(slices) :
        /\ slices[i].phase = "solve"
        /\ slices[i].x > min_point[1]
        /\ \E e \in evals :
            /\ e.pose.translation[3] = slices[i].target_pose.translation[3]
            /\ SolverLeaves(ik_solver, e.arm, e.pose) # initial_angles

\* C14: each z-slice works on an arm instance of its own, which is not the
\* caller's, and a step of one z-slice leaves the arm of every other running
\* z-slice as it was
C14_ArmPrivateToSlice ==
    /\ [](\A i, j \in 1..Len(slices) :
            /\ ArmOf(i) # 0
            /\ i # j => ArmOf(i) # ArmOf(j))
    /\ [][\A j \in 1..Len(slices) :
            (Running(j) /\ slices'[j] = slices[j]) =>
                arms'[ArmOf(j)] = arms[ArmOf(j)]]_vars
C14_WitnessTwoSlicesArmsDiffer ==
    \E i, j \in 1..Len(slices) :
        /\ i # j
        /\ Running(i)
        /\ Running(j)
        /\ slices[i].phase = "solve"
        /\ arms[ArmOf(i)] # arms[ArmOf(j)]

\* the half-open lattice of one axis: min + i * step below max, in exact
\* arithmetic
Lattice(k) ==
    { v \in min_point[k]..max_point[k] :
        /\ v < max_point[k]
        /\ (v - min_point[k]) % unit_check_length = 0 }
\* the number of whole steps of one axis
WholeSteps(k) ==
    IF max_point[k] > min_point[k]
    THEN (max_point[k] - min_point[k]) \div unit_check_length
    ELSE 0

\* C15: when the call returns the solver has been handed each point of the
\* half-open lattice once and nothing else; for a box a whole number of
\* steps wide on every axis that is nx * ny * nz invocations
C15_EachLatticePointOnce ==
    pc = "done" =>
        /\ ~repeated
        /\ { e.pose.translation : e \in evals } =
                Lattice(1) \X Lattice(2) \X Lattice(3)
        /\ (\A k \in 1..3 :
                max_point[k] >= min_point[k]
                /\ (max_point[k] - min_point[k]) % unit_check_length = 0)
            => Cardinality(evals) = WholeSteps(1) * WholeSteps(2) * WholeSteps(3)

\* C16: the caller's arm keeps the configuration it had when the call was
\* made, during the call and after it
C16_CallerArmUnchanged == arms[0] = pre_call
C16_WitnessWorkerArmMoved ==
    /\ pc = "done"
    /\ evals # {}
    /\ \E i \in 1..Len(slices) : arms[ArmOf(i)] # pre_call

\* C17: a call with num_max_try = 0 makes no engine invocation, draws no
\* restart seed, leaves the arm at its pre-call configuration and returns
\* the not-converged failure with num_tried = 0; and no call returns Ok
\* without a converged engine invocation
C17_ZeroBudgetReturnsNotConverged ==
    /\ (num_max_try = 0 /\ pc = "done") =>
        /\ outcomes = << >>
        /\ randomizations = 0
        /\ arm = pre_call
        /\ returned = NotConverged(0)
    /\ returned = OkResult =>
        /\ outcomes # << >>
        /\ outcomes[Len(outcomes)] = OkResult

\* a box with no point: min >= max on some axis
EmptyBox == \E k \in 1..3 : min_point[k] >= max_point[k]

\* C18: every call returns; each step of a loop moves its coordinate up;
\* and for a box with min >= max on some axis no solver invocation is made
\* and the result is empty
C18_EventuallyReturns ==
    /\ <>(pc = "done")
    /\ [][Len(z_points') > Len(z_points) => z' > z]_vars
    /\ [][\A i \in 1..Len(slices) :
            /\ (slices[i].phase = "xloop" /\ slices'[i].phase = "yloop")
                => slices'[i].y > slices[i].y
            /\ (slices[i].phase \in {"solve", "push"} /\ slices'[i].phase = "xloop")
                => slices'[i].x > slices[i].x]_vars
    /\ [](EmptyBox => evals = {} /\ solved_poses = << >>)
    /\ [](EmptyBox /\ pc = "done" => regions = << >>)

\* C19: in every call of send_joint_trajectory the goal request is made
\* only after the server was reported available, the done flag is set only
\* after the result of that call's goal has been received, and the
\* WaitFuture resolves only after the flag is set, so never with Ok before
\* the result has arrived
C19_TrajectoryEventsOrdered ==
    \A c \in Calls :
        /\ goal_sent[c] => is_available[c] = "Ok"
        /\ is_done[c] => goal_sent[c] /\ goal_result[c] = "Ok"
        /\ wait[c] \in {"Ok", "Err"} => is_done[c]
        /\ wait[c] = "Ok" => goal_result[c] = "Ok"
C19_WitnessOneResolvedOtherWaiting ==
    \E c, d \in Calls :
        /\ wait[c] = "Ok"
        /\ goal_sent[d]
        /\ ~is_done[d]
        /\ wait[d] = "pending"

\* C20: what current_joint_positions returns has one position per name of
\* self.joint_names, in that order, each the position at the first entry of
\* the received state whose joint name is that name
C20_PositionsByName ==
    cpc = "returned" =>
        /\ Len(positions) = Len(joint_names)
        /\ \A k \in 1..Len(joint_names) :
            \E j \in 1..Len(joints.joint_names) :
                /\ joints.joint_names[j] = joint_names[k]
                /\ \A i \in 1..(j - 1) : joints.joint_names[i] # joint_names[k]
                /\ positions[k] = joints.actual.positions[j]
C20_WitnessStateInOtherOrder ==
    /\ cpc = "returned"
    /\ Len(joint_names) = 2
    /\ joint_names[1] # joint_names[2]
    /\ joints.joint_names = << joint_names[2], joint_names[1] >>
    /\ positions[1] # positions[2]

====
